---- MODULE Spec2Model ----
(***************************************************************************)
(* Connection core of the AMQP client (rabbitmq/connection.py).            *)
(*                                                                         *)
(* The Connection object's fields are the variables.  Every method of the  *)
(* class is an operator from a connection record s to the connection       *)
(* record after the call, so that nested calls (handle_close -> close ->   *)
(* _rpc -> _ensure_channel ...) compose exactly as in the source.  The     *)
(* field s.raised carries an exception out of a call.  A call blocked in   *)
(* wait_for_reply leaves an activation on s.stack; the driver's events     *)
(* run above it, as they do when drain_events re-enters the event loop.    *)
(***************************************************************************)
EXTENDS Integers, Sequences, FiniteSets, TLC

VARIABLES
    frame_handler,      \* self.frame_handler: "_login1", "_login2", "_generic_frame_handler"
    connection_open,    \* self.connection_open
    connection_close,   \* self.connection_close: None or a Connection.Close method
    credentials,        \* self.credentials: None once erased
    virtual_host,       \* self.virtual_host
    parameters,         \* self.parameters (ConnectionParameters)
    state,              \* self.state (codec.ConnectionState): negotiated limits
    outbound_buffer,    \* self.outbound_buffer: frames written and not yet sent
    channels,           \* self.channels: channel number -> handler
    next_channel,       \* self.next_channel
    known_hosts,        \* self.known_hosts
    handlers,           \* the ChannelHandler objects created so far
    stack,              \* activations: handle_read loops and blocked wait_for_reply calls
    shutdown_requests,  \* calls of shutdown_event_loop
    opened_hooks,       \* calls of handle_connection_open
    closed_hooks,       \* calls of handle_connection_close
    wire,               \* frames handed to the transport by handle_write
    inbound_count,      \* frames received from the peer so far
    error,              \* the exception the last operation raised, or None
    last                \* the last operation

vars == <<frame_handler, connection_open, connection_close, credentials,
          virtual_host, parameters, state, outbound_buffer, channels, next_channel,
          known_hosts, handlers, stack, shutdown_requests, opened_hooks,
          closed_hooks, wire, inbound_count, error, last>>

(***************************************************************************)
(* Bounds of the model.                                                    *)
(***************************************************************************)
MaxInbound == 5      \* frames the peer sends in one behaviour
MaxRead == 2         \* frames one recv returns
MaxHandlers == 2     \* ChannelHandler objects created in one behaviour
MaxAppSends == 1     \* methods the application submits in one behaviour
MaxShutdown == 2     \* shutdown_event_loop calls in one behaviour
MaxBody == 5         \* bytes of a content body
MaxAllocs == 3       \* ChannelHandler objects of the allocator's specification

(***************************************************************************)
(* Program constants.                                                      *)
(***************************************************************************)
DEFAULT_FRAME_MAX == 131072
DEFAULT_CHANNEL_LIMIT == 32767
HEADER_SIZE == 7
FOOTER_SIZE == 1

None == [name |-> "None"]

Min(a, b) == IF a < b THEN a ELSE b

(***************************************************************************)
(* The protocol method catalogue (rabbitmq.spec) and the frames            *)
(* (rabbitmq.codec), as far as the connection uses them.                   *)
(***************************************************************************)
Close(reply_code, reply_text, class_id, method_id) ==
    [name |-> "Connection.Close", reply_code |-> reply_code,
     reply_text |-> reply_text, class_id |-> class_id, method_id |-> method_id]

CloseOk == [name |-> "Connection.CloseOk"]

Start(mechanisms) == [name |-> "Connection.Start", mechanisms |-> mechanisms]

StartOk(mechanism, response) ==
    [name |-> "Connection.StartOk", mechanism |-> mechanism, response |-> response]

Tune(channel_max, frame_max, heartbeat) ==
    [name |-> "Connection.Tune", channel_max |-> channel_max,
     frame_max |-> frame_max, heartbeat |-> heartbeat]

TuneOk(channel_max, frame_max, heartbeat) ==
    [name |-> "Connection.TuneOk", channel_max |-> channel_max,
     frame_max |-> frame_max, heartbeat |-> heartbeat]

Open(vhost, insist) ==
    [name |-> "Connection.Open", virtual_host |-> vhost, insist |-> insist]

OpenOk(hosts) == [name |-> "Connection.OpenOk", known_hosts |-> hosts]

\* A channel-level request and its reply, standing for the per-channel RPCs.
QueueDeclare == [name |-> "Queue.Declare"]
QueueDeclareOk == [name |-> "Queue.DeclareOk"]
BasicPublish == [name |-> "Basic.Publish"]

\* rabbitmq.spec.PROTOCOL_VERSION
PROTOCOL_VERSION == <<8, 0>>

FrameProtocolHeader(major, minor) ==
    [type |-> "FrameProtocolHeader", channel_number |-> -1,
     major |-> major, minor |-> minor]

FrameMethod(channel_number, method) ==
    [type |-> "FrameMethod", channel_number |-> channel_number, method |-> method]

FrameHeader(channel_number, length, props) ==
    [type |-> "FrameHeader", channel_number |-> channel_number,
     body_size |-> length, properties |-> props]

FrameBody(channel_number, piece) ==
    [type |-> "FrameBody", channel_number |-> channel_number, fragment |-> piece]

FrameHeartbeat == [type |-> "FrameHeartbeat", channel_number |-> 0]

(***************************************************************************)
(* Exceptions (rabbitmq.exceptions).                                       *)
(***************************************************************************)
Exception(type, reason) == [type |-> type, reason |-> reason]

Raise(s, type, reason) == [s EXCEPT !.raised = Exception(type, reason)]

(***************************************************************************)
(* PlainCredentials and ConnectionParameters.                              *)
(***************************************************************************)
PlainCredentials(username, password) ==
    [name |-> "PlainCredentials", username |-> username, password |-> password]

\* start.mechanisms.split() is the sequence of the offered mechanism names.
response_for(creds, start) ==
    IF \A i \in 1..Len(start.mechanisms) : start.mechanisms[i] # "PLAIN"
    THEN None
    ELSE [name |-> "response", mechanism |-> "PLAIN",
          response |-> <<0, creds.username, 0, creds.password>>]

ConnectionParameters(channel_max, frame_max, heartbeat) ==
    [channel_max |-> channel_max, frame_max |-> frame_max, heartbeat |-> heartbeat]

\* combine_tuning, were it to keep the local value whenever one is set.
combine_tuning_local_first(a, b) ==
    IF a = 0 THEN b ELSE a

combine_tuning(a, b) ==
    IF a = 0 THEN b
    ELSE IF b = 0 THEN a
    ELSE Min(a, b)

(***************************************************************************)
(* Outbound Frame Writer: send_frame and send_method.                      *)
(***************************************************************************)
NoContent == None

\* content is NoContent or the tuple (props, body); a bare body has props None.
Content(props, body) == [name |-> "content", props |-> props, body |-> body]

send_frame(s, frame) ==
    [s EXCEPT !.outbound_buffer = Append(@, frame)]

\* The body loop, were it to stop at a piece shorter than maxpiece.
RECURSIVE BodyFrames_drops_remainder(_, _, _)
BodyFrames_drops_remainder(channel_number, body_buf, maxpiece) ==
    IF Len(body_buf) < maxpiece
    THEN <<>>
    ELSE <<FrameBody(channel_number, SubSeq(body_buf, 1, maxpiece))>>
         \o BodyFrames_drops_remainder(channel_number,
                SubSeq(body_buf, maxpiece + 1, Len(body_buf)), maxpiece)

RECURSIVE BodyFrames(_, _, _)
BodyFrames(channel_number, body_buf, maxpiece) ==
    IF Len(body_buf) = 0
    THEN <<>>
    ELSE LET piecelen == Min(Len(body_buf), maxpiece)
         IN  <<FrameBody(channel_number, SubSeq(body_buf, 1, piecelen))>>
             \o BodyFrames(channel_number,
                           SubSeq(body_buf, piecelen + 1, Len(body_buf)), maxpiece)

\* send_method, were it to write the content header before the method.
send_method_header_first(s, channel_number, method, content) ==
    LET props == IF content # NoContent THEN content.props ELSE None
        body == IF content # NoContent THEN content.body ELSE <<>>
        s1 == IF props # None
              THEN send_frame(s, FrameHeader(channel_number, Len(body), props))
              ELSE s
        s2 == send_frame(s1, FrameMethod(channel_number, method))
        maxpiece == s.state.frame_max - HEADER_SIZE - FOOTER_SIZE
    IN  IF Len(body) > 0
        THEN [s2 EXCEPT !.outbound_buffer =
                           @ \o BodyFrames(channel_number, body, maxpiece)]
        ELSE s2

send_method(s, channel_number, method, content) ==
    LET s1 == send_frame(s, FrameMethod(channel_number, method))
        props == IF content # NoContent THEN content.props ELSE None
        body == IF content # NoContent THEN content.body ELSE <<>>
        s2 == IF props # None
              THEN send_frame(s1, FrameHeader(channel_number, Len(body), props))
              ELSE s1
        maxpiece == s.state.frame_max - HEADER_SIZE - FOOTER_SIZE
    IN  IF Len(body) > 0
        THEN [s2 EXCEPT !.outbound_buffer =
                           @ \o BodyFrames(channel_number, body, maxpiece)]
        ELSE s2

(***************************************************************************)
(* Channel Table: _next_channel_number, _set_channel, reset_channel.       *)
(***************************************************************************)
RECURSIVE NextChannelScan(_, _, _, _)
NextChannelScan(table, next, tries, limit) ==
    IF next \notin DOMAIN table
    THEN [next_channel |-> next, raised |-> FALSE]
    ELSE LET stepped == (next + 1) % limit
             tries1 == tries + 1
             next1 == IF stepped = 0 THEN 1 ELSE stepped
         IN  IF tries1 > limit
             THEN [next_channel |-> next1, raised |-> TRUE]
             ELSE NextChannelScan(table, next1, tries1, limit)

\* The number returned is the next_channel field of the result.
_next_channel_number(s) ==
    LET limit == IF s.state.channel_max # 0 THEN s.state.channel_max
                 ELSE DEFAULT_CHANNEL_LIMIT
        r == NextChannelScan(s.channels, s.next_channel, 0, limit)
        s1 == [s EXCEPT !.next_channel = r.next_channel]
    IN  IF r.raised THEN Raise(s1, "NoFreeChannels", None) ELSE s1

_set_channel(s, channel_number, channel) ==
    [s EXCEPT !.channels =
        [n \in (DOMAIN @) \cup {channel_number} |->
            IF n = channel_number THEN channel ELSE @[n]]]

reset_channel(s, channel_number) ==
    IF channel_number \in DOMAIN s.channels
    THEN [s EXCEPT !.channels = [n \in (DOMAIN @) \ {channel_number} |-> @[n]]]
    ELSE s

(***************************************************************************)
(* ChannelHandler (rabbitmq.channel): the per-channel close reason, the    *)
(* asynchronous subscriptions and the pending synchronous call.            *)
(***************************************************************************)
\* ChannelHandler(connection, channel_number): a new handler, registered.
ChannelHandlerAt(s, channel_number, async_map) ==
    LET h == Len(s.handlers) + 1
        s1 == [s EXCEPT !.handlers =
                  Append(@, [channel_number |-> channel_number,
                             channel_close |-> None,
                             async_map |-> async_map])]
    IN  _set_channel(s1, channel_number, h)

\* ChannelHandler(connection): the number comes from _next_channel_number.
ChannelHandler(s) ==
    LET s1 == _next_channel_number(s)
    IN  IF s1.raised # None THEN s1
        ELSE ChannelHandlerAt(s1, s1.next_channel, {})

\* First reason wins; a closed channel leaves the channel table.
_set_channel_close(s, h, c) ==
    IF s.handlers[h].channel_close = None
    THEN reset_channel([s EXCEPT !.handlers[h].channel_close = c],
                       s.handlers[h].channel_number)
    ELSE s

_ensure(s, h) ==
    IF s.handlers[h].channel_close # None
    THEN Raise(s, "ChannelClosed", s.handlers[h].channel_close)
    ELSE s

ReadAct(buf) == [k |-> "read", buf |-> buf]

WaitAct(h, acceptable_replies, cont, then) ==
    [k |-> "wait", handler |-> h, acceptable |-> acceptable_replies,
     reply |-> None, cont |-> cont, then |-> then]

\* wait_for_reply up to its first drain_events: the caller blocks, and the
\* rest of the caller (cont) runs when the wait returns.
wait_for_reply(s, h, acceptable_replies, cont, then) ==
    IF acceptable_replies = {} THEN s
    ELSE LET s1 == _ensure(s, h)
         IN  IF s1.raised # None THEN s1
             ELSE [s1 EXCEPT !.stack =
                      Append(@, WaitAct(h, acceptable_replies, cont, then))]

\* The pending calls of handler h that a method of this kind resolves.
PendingFor(s, h, kind) ==
    {i \in 1..Len(s.stack) :
        /\ s.stack[i].k = "wait"
        /\ s.stack[i].handler = h
        /\ s.stack[i].reply = None
        /\ kind \in s.stack[i].acceptable}

Max(S) == CHOOSE x \in S : \A y \in S : y <= x

(***************************************************************************)
(* Connection: close propagation.                                          *)
(***************************************************************************)
Range(f) == {f[x] : x \in DOMAIN f}

\* for chan in self.channels.values(): chan._set_channel_close(c)
RECURSIVE CascadeClose(_, _, _)
CascadeClose(s, chans, c) ==
    IF chans = {} THEN s
    ELSE LET chan == CHOOSE h \in chans : TRUE
         IN  CascadeClose(_set_channel_close(s, chan, c), chans \ {chan}, c)

\* _set_connection_close without its "if not self.connection_close" guard.
_set_connection_close_overwrites(s, c) ==
    CascadeClose([s EXCEPT !.connection_close = c], Range(s.channels), c)

_set_connection_close(s, c) ==
    IF s.connection_close = None
    THEN CascadeClose([s EXCEPT !.connection_close = c], Range(s.channels), c)
    ELSE s

\* _ensure_channel without its check of self.connection_close.
_ensure_channel_unchecked(s, channel_number) ==
    IF channel_number \notin DOMAIN s.channels
    THEN Raise(s, "KeyError", None)
    ELSE _ensure(s, s.channels[channel_number])

_ensure_channel(s, channel_number) ==
    IF s.connection_close # None
    THEN Raise(s, "ConnectionClosed", s.connection_close)
    ELSE IF channel_number \notin DOMAIN s.channels
    THEN Raise(s, "KeyError", None)
    ELSE _ensure(s, s.channels[channel_number])

\* cont names the rest of the caller, run when wait_for_reply returns.
_rpc(s, channel_number, method, acceptable_replies, cont, then) ==
    LET s1 == _ensure_channel(s, channel_number)
    IN  IF s1.raised # None THEN s1
        ELSE wait_for_reply(send_method(s1, channel_number, method, NoContent),
                            s1.channels[channel_number],
                            acceptable_replies, cont, then)

shutdown_event_loop(s) ==
    [s EXCEPT !.shutdown_requests = @ + 1]

NormalShutdown == Close(200, "Normal shutdown", 0, 0)

SocketClosed == Close(0, "Socket closed", 0, 0)

\* close() up to the point where _rpc blocks or raises.
close(s, then) ==
    IF s.connection_open
    THEN _rpc([s EXCEPT !.connection_open = FALSE], 0, NormalShutdown,
              {"Connection.CloseOk"}, "close", then)
    ELSE shutdown_event_loop(s)

\* close() after _rpc has returned.
close_rest(s) ==
    shutdown_event_loop(_set_connection_close(s, NormalShutdown))

handle_close(s, then) ==
    close(_set_connection_close(s, SocketClosed), then)

(***************************************************************************)
(* Connection: the handshake.                                              *)
(***************************************************************************)
_local_protocol_header ==
    FrameProtocolHeader(PROTOCOL_VERSION[1], PROTOCOL_VERSION[2])

_erase_credentials(s) ==
    [s EXCEPT !.credentials = None]

\* _login1 without its call of _erase_credentials.
_login1_keeps_credentials(s, frame) ==
    IF frame.type = "FrameProtocolHeader"
    THEN Raise(s, "ProtocolVersionMismatch", None)
    ELSE IF frame.type # "FrameMethod" \/ frame.method.name # "Connection.Start"
    THEN Raise(s, "AttributeError", None)
    ELSE LET response == response_for(s.credentials, frame.method)
         IN  IF response = None
             THEN Raise(s, "NameError", None)
             ELSE LET s1 == send_method(s, 0, StartOk(response.mechanism,
                                                     response.response), NoContent)
                  IN  [s1 EXCEPT !.frame_handler = "_login2"]

_login1(s, frame) ==
    IF frame.type = "FrameProtocolHeader"
    THEN Raise(s, "ProtocolVersionMismatch", None)
    ELSE IF frame.type # "FrameMethod" \/ frame.method.name # "Connection.Start"
    THEN Raise(s, "AttributeError", None)
    ELSE LET response == response_for(s.credentials, frame.method)
         IN  IF response = None
             \* raise LoginError(..., credentials): the name credentials is not bound
             THEN Raise(s, "NameError", None)
             ELSE LET s1 == send_method(s, 0, StartOk(response.mechanism,
                                                     response.response), NoContent)
                      s2 == _erase_credentials(s1)
                  IN  [s2 EXCEPT !.frame_handler = "_login2"]

\* c.async_map[spec.Connection.Close] = self._async_connection_close
_install_channel0(s) ==
    ChannelHandlerAt(s, 0, {"Connection.Close"})

\* _login2 up to the point where _rpc blocks or raises.
_login2(s, frame) ==
    IF frame.type # "FrameMethod" \/ frame.method.name # "Connection.Tune"
    THEN Raise(s, "AttributeError", None)
    ELSE LET channel_max == combine_tuning(s.parameters.channel_max,
                                           frame.method.channel_max)
             frame_max == combine_tuning(s.parameters.frame_max,
                                         frame.method.frame_max)
             s1 == [s EXCEPT !.state = [channel_max |-> channel_max,
                                        frame_max |-> frame_max]]
             s2 == send_method(s1, 0,
                       TuneOk(channel_max, frame_max,
                              combine_tuning(s.parameters.heartbeat,
                                             frame.method.heartbeat)),
                       NoContent)
             s3 == [s2 EXCEPT !.frame_handler = "_generic_frame_handler"]
             s4 == _install_channel0(s3)
         IN  _rpc(s4, 0, Open(s.virtual_host, TRUE),
                  {"Connection.OpenOk"}, "_login2", "return")

handle_connection_open(s) ==
    [s EXCEPT !.opened_hooks = @ + 1]

handle_connection_close(s) ==
    [s EXCEPT !.closed_hooks = @ + 1]

\* _login2 after _rpc has returned the open-ok method.
_login2_rest(s, reply) ==
    handle_connection_open([s EXCEPT !.known_hosts = reply.known_hosts,
                                     !.connection_open = TRUE])

(***************************************************************************)
(* Connection: steady state.                                               *)
(***************************************************************************)
\* _async_connection_close without its send_method of close-ok.
_async_connection_close_silent(s, method_frame) ==
    LET s1 == _set_connection_close(s, method_frame.method)
        s2 == [s1 EXCEPT !.connection_open = FALSE]
    IN  handle_connection_close(s2)

_async_connection_close(s, method_frame) ==
    LET s1 == _set_connection_close(s, method_frame.method)
        s2 == [s1 EXCEPT !.connection_open = FALSE]
        s3 == send_method(s2, 0, CloseOk, NoContent)
    IN  handle_connection_close(s3)

\* ChannelHandler's frame handler: a reply resolves the channel's pending
\* call, a subscribed method goes to its handler, anything else is an
\* unexpected frame.
channel_frame_handler(s, h, frame) ==
    IF frame.type # "FrameMethod"
    THEN Raise(s, "UnexpectedFrame", None)
    ELSE LET pending == PendingFor(s, h, frame.method.name)
         IN  IF pending # {}
             THEN [s EXCEPT !.stack[Max(pending)].reply = frame.method]
             ELSE IF frame.method.name \in s.handlers[h].async_map
             THEN _async_connection_close(s, frame)
             ELSE Raise(s, "UnexpectedFrame", None)

\* _generic_frame_handler, were it to drop a frame for an unknown channel.
_generic_frame_handler_drops_unknown(s, frame) ==
    IF frame.type = "FrameHeartbeat"
    THEN send_frame(s, frame)
    ELSE IF frame.channel_number \notin DOMAIN s.channels
    THEN s
    ELSE channel_frame_handler(s, s.channels[frame.channel_number], frame)

_generic_frame_handler(s, frame) ==
    IF frame.type = "FrameHeartbeat"
    THEN send_frame(s, frame)
    ELSE IF frame.channel_number \notin DOMAIN s.channels
    THEN Raise(s, "KeyError", None)
    ELSE channel_frame_handler(s, s.channels[frame.channel_number], frame)

\* self.frame_handler(frame)
call_frame_handler(s, frame) ==
    CASE s.frame_handler = "_login1" -> _login1(s, frame)
      [] s.frame_handler = "_login2" -> _login2(s, frame)
      [] OTHER -> _generic_frame_handler(s, frame)

(***************************************************************************)
(* The connection record of the current state, and the state after a call. *)
(***************************************************************************)
Self ==
    [frame_handler |-> frame_handler, connection_open |-> connection_open,
     connection_close |-> connection_close, credentials |-> credentials,
     virtual_host |-> virtual_host, parameters |-> parameters, state |-> state,
     outbound_buffer |-> outbound_buffer, channels |-> channels,
     next_channel |-> next_channel, known_hosts |-> known_hosts,
     handlers |-> handlers, stack |-> stack,
     shutdown_requests |-> shutdown_requests, opened_hooks |-> opened_hooks,
     closed_hooks |-> closed_hooks, raised |-> None]

\* A handle_read whose buffer is used up returns.
RECURSIVE PopReads(_)
PopReads(st) ==
    IF st # <<>> /\ st[Len(st)].k = "read" /\ st[Len(st)].buf = <<>>
    THEN PopReads(SubSeq(st, 1, Len(st) - 1))
    ELSE st

\* An exception no frame of the source catches unwinds every activation.
Unwind(s) ==
    IF s.raised # None THEN <<>> ELSE PopReads(s.stack)

Becomes(s, op) ==
    /\ frame_handler' = s.frame_handler
    /\ connection_open' = s.connection_open
    /\ connection_close' = s.connection_close
    /\ credentials' = s.credentials
    /\ virtual_host' = s.virtual_host
    /\ parameters' = s.parameters
    /\ state' = s.state
    /\ outbound_buffer' = s.outbound_buffer
    /\ channels' = s.channels
    /\ next_channel' = s.next_channel
    /\ known_hosts' = s.known_hosts
    /\ handlers' = s.handlers
    /\ stack' = Unwind(s)
    /\ shutdown_requests' = s.shutdown_requests
    /\ opened_hooks' = s.opened_hooks
    /\ closed_hooks' = s.closed_hooks
    /\ error' = s.raised
    /\ last' = op

Enqueued == wire \o outbound_buffer

\* The methods the application itself has submitted so far.
AppSends ==
    Cardinality({i \in 1..Len(Enqueued) :
                    /\ Enqueued[i].type = "FrameMethod"
                    /\ Enqueued[i].method.name \in {"Basic.Publish", "Queue.Declare"}})

(***************************************************************************)
(* Inputs.                                                                 *)
(***************************************************************************)
ParameterChoices ==
    {ConnectionParameters(0, DEFAULT_FRAME_MAX, 0)}

TuneOffers == {<<0, 0, 0>>, <<2, 10, 60>>}

\* Local limits that are unset, below and above what the peer offers.
TuningParameterChoices ==
    {ConnectionParameters(c, f, h) :
        c \in {0, 1, 3}, f \in {0, 9, DEFAULT_FRAME_MAX}, h \in {0, 30}}

MechanismOffers == {<<"PLAIN">>, <<"AMQPLAIN">>}

AppChannels == 0..1

PeerClose == Close(320, "CONNECTION_FORCED", 0, 0)

PeerFrames ==
    {FrameProtocolHeader(0, 9), FrameHeartbeat,
     FrameMethod(0, OpenOk(<<>>)), FrameMethod(0, PeerClose),
     FrameMethod(0, CloseOk)}
    \cup {FrameMethod(0, Start(m)) : m \in MechanismOffers}
    \cup {FrameMethod(0, Tune(t[1], t[2], t[3])) : t \in TuneOffers}
    \cup {FrameMethod(n, QueueDeclareOk) : n \in 1..1}

Contents == {NoContent, Content([name |-> "BasicProperties"], <<1, 2, 3>>)}

BasicProperties == [name |-> "BasicProperties"]

\* Bodies of every length from none to MaxBody bytes.
Bodies == {[i \in 1..n |-> i] : n \in 0..MaxBody}

\* What the application passes as content: nothing, a bare body, or the
\* tuple (props, body).
SendContents ==
    {NoContent, Content(None, <<1, 2, 3>>)}
    \cup {Content(BasicProperties, body) : body \in Bodies}

(***************************************************************************)
(* Init: the connection as __init__ leaves it, the protocol header queued. *)
(***************************************************************************)
Constructed(choices) ==
    /\ frame_handler = "_login1"
    /\ connection_open = FALSE
    /\ connection_close = None
    /\ credentials = PlainCredentials("guest", "guest")
    /\ virtual_host = "/"
    /\ parameters \in choices
    /\ state = [channel_max |-> 0, frame_max |-> 0]
    /\ outbound_buffer = <<_local_protocol_header>>
    /\ channels = <<>>
    /\ next_channel = 0
    /\ known_hosts = None
    /\ handlers = <<>>
    /\ stack = <<>>
    /\ shutdown_requests = 0
    /\ opened_hooks = 0
    /\ closed_hooks = 0
    /\ wire = <<>>
    /\ inbound_count = 0
    /\ error = None
    /\ last = "__init__"

Init == Constructed(ParameterChoices)

\* The connection constructed with parameters of the caller's choice.
InitTuning == Constructed(TuningParameterChoices)

(***************************************************************************)
(* The transport driver's events.  They run when the application has       *)
(* handed control to the event loop: at top level, or inside the           *)
(* drain_events of a blocked wait_for_reply.                               *)
(***************************************************************************)
Top == stack[Len(stack)]

DriverRuns ==
    IF stack = <<>> THEN TRUE ELSE Top.k \in {"wait", "wait_for_open"}

\* b = self.state.channel_max; if not b: b = 131072
RecvSize == IF state.channel_max # 0 THEN state.channel_max ELSE DEFAULT_FRAME_MAX

\* No frame is shorter than its header and footer, so a recv of b bytes
\* completes at most 1 + (b - 1) \div MinFrameSize frames.
MinFrameSize == HEADER_SIZE + FOOTER_SIZE

\* handle_read: recv returns at most RecvSize bytes, which complete k frames,
\* and the loop hands the first of them to the frame handler.  The buffer of
\* the activation holds the arrival numbers of the frames still to decode;
\* what a frame holds is drawn when state.handle_input decodes it.
HandleRead(k, frame) ==
    /\ DriverRuns
    /\ inbound_count + k <= MaxInbound
    /\ 1 + (k - 1) * MinFrameSize <= RecvSize
    /\ LET buf == [i \in 1..(k - 1) |-> inbound_count + 1 + i]
           s == [Self EXCEPT !.stack = Append(@, ReadAct(buf))]
       IN  Becomes(call_frame_handler(s, frame), "frame_handler")
    /\ inbound_count' = inbound_count + k
    /\ UNCHANGED wire

\* handle_read's loop goes on: the next frame of the buffer goes to the frame
\* handler.
DispatchFrame(frame) ==
    /\ stack # <<>>
    /\ Top.k = "read"
    /\ Top.buf # <<>>
    /\ LET s == [Self EXCEPT !.stack[Len(stack)].buf = Tail(@)]
       IN  Becomes(call_frame_handler(s, frame), "frame_handler")
    /\ UNCHANGED <<wire, inbound_count>>

\* handle_read: recv returns no bytes.
HandleReadEmpty ==
    /\ DriverRuns
    /\ shutdown_requests < MaxShutdown
    /\ Becomes(close(Self, "return"), "handle_read_empty")
    /\ UNCHANGED <<wire, inbound_count>>

\* handle_read: recv raises socket.error.
HandleReadError ==
    /\ DriverRuns
    /\ shutdown_requests < MaxShutdown
    /\ LET s == handle_close(Self, "raise")
       IN  Becomes(IF s.raised # None \/ Len(s.stack) > Len(stack)
                   THEN s ELSE Raise(s, "socket.error", None),
                   "handle_read_error")
    /\ UNCHANGED <<wire, inbound_count>>

\* handle_close, called by the driver.
HandleClose ==
    /\ DriverRuns
    /\ shutdown_requests < MaxShutdown
    /\ Becomes(handle_close(Self, "return"), "handle_close")
    /\ UNCHANGED <<wire, inbound_count>>

\* handle_write: the transport takes the first r frames of the buffer.
HandleWrite(r) ==
    /\ DriverRuns
    /\ r \in 1..Len(outbound_buffer)
    /\ Becomes([Self EXCEPT !.outbound_buffer = SubSeq(@, r + 1, Len(@))],
               "handle_write")
    /\ wire' = wire \o SubSeq(outbound_buffer, 1, r)
    /\ UNCHANGED inbound_count

(***************************************************************************)
(* wait_for_reply after a drain_events.                                    *)
(***************************************************************************)
ReturnTo(s, w) ==
    LET s1 == CASE w.cont = "_login2" -> _login2_rest(s, w.reply)
                [] w.cont = "close" -> close_rest(s)
                [] OTHER -> s
    IN  IF s1.raised = None /\ w.then = "raise"
        THEN Raise(s1, "socket.error", None)
        ELSE s1

\* The reply has arrived: the blocked caller goes on.
WaitReturns ==
    /\ stack # <<>>
    /\ Top.k = "wait"
    /\ Top.reply # None
    /\ Becomes(ReturnTo([Self EXCEPT !.stack = SubSeq(@, 1, Len(@) - 1)], Top),
               "wait_for_reply")
    /\ UNCHANGED <<wire, inbound_count>>

\* No reply, and the channel is closed: _ensure raises.
WaitRaises ==
    /\ stack # <<>>
    /\ Top.k = "wait"
    /\ Top.reply = None
    /\ handlers[Top.handler].channel_close # None
    /\ Becomes(_ensure(Self, Top.handler),
               "wait_for_reply")
    /\ UNCHANGED <<wire, inbound_count>>

(***************************************************************************)
(* The application's calls, made when it has control.                      *)
(***************************************************************************)
AppClose ==
    /\ stack = <<>>
    /\ shutdown_requests < MaxShutdown
    /\ Becomes(close(Self, "return"), "close")
    /\ UNCHANGED <<wire, inbound_count>>

AppChannel ==
    /\ stack = <<>>
    /\ Len(handlers) < MaxHandlers
    /\ Becomes(ChannelHandler(Self), "channel")
    /\ UNCHANGED <<wire, inbound_count>>

\* while not self.connection_open and not self.connection_close
StillOpening(s) == ~s.connection_open /\ s.connection_close = None

\* wait_for_open, called by the application or by __init__: it returns at
\* once, or starts pumping events.
AppWaitForOpen ==
    /\ stack = <<>>
    /\ Becomes(IF StillOpening(Self)
               THEN [Self EXCEPT !.stack = Append(@, [k |-> "wait_for_open"])]
               ELSE Self,
               "wait_for_open")
    /\ UNCHANGED <<wire, inbound_count>>

\* wait_for_open after a drain_events: the loop ends when its test fails.
WaitForOpenReturns ==
    /\ stack # <<>>
    /\ Top.k = "wait_for_open"
    /\ ~StillOpening(Self)
    /\ Becomes([Self EXCEPT !.stack = SubSeq(@, 1, Len(@) - 1)], "wait_for_open")
    /\ UNCHANGED <<wire, inbound_count>>

\* connection.channel() again, for the study of the allocator: as many
\* handlers as it takes to fill a small channel table and to reuse a number.
AppAllocate ==
    /\ stack = <<>>
    /\ Len(handlers) < MaxAllocs
    /\ Becomes(ChannelHandler(Self), "channel")
    /\ UNCHANGED <<wire, inbound_count>>

AppResetChannel(n) ==
    /\ stack = <<>>
    /\ n \in DOMAIN channels
    /\ n # 0
    /\ Becomes(reset_channel(Self, n), "reset_channel")
    /\ UNCHANGED <<wire, inbound_count>>

AppSendMethod(n, content) ==
    /\ stack = <<>>
    /\ AppSends < MaxAppSends
    /\ content # NoContent => state.frame_max > HEADER_SIZE + FOOTER_SIZE
    /\ Becomes(send_method(Self, n, BasicPublish, content), "send_method")
    /\ UNCHANGED <<wire, inbound_count>>

AppRpc(n) ==
    /\ stack = <<>>
    /\ AppSends < MaxAppSends
    /\ Becomes(_rpc(Self, n, QueueDeclare, {"Queue.DeclareOk"}, "app", "return"),
               "_rpc")
    /\ UNCHANGED <<wire, inbound_count>>

\* What the transport driver and the peer do to the connection.
Driver ==
    \/ \E k \in 1..MaxRead, frame \in PeerFrames : HandleRead(k, frame)
    \/ \E frame \in PeerFrames : DispatchFrame(frame)
    \/ HandleReadEmpty
    \/ HandleReadError
    \/ HandleClose
    \/ WaitReturns
    \/ WaitRaises

\* The connection's life cycle and its channel table.
Next ==
    \/ Driver
    \/ AppClose
    \/ AppChannel
    \/ \E n \in 1..2 : AppResetChannel(n)

Spec == Init /\ [][Next]_vars

\* The life cycle with the application's sends.
NextCalls ==
    \/ Driver
    \/ AppClose
    \/ AppChannel
    \/ \E content \in Contents : AppSendMethod(1, content)

SpecCalls == Init /\ [][NextCalls]_vars

\* The life cycle with the application's synchronous calls.
NextRpc ==
    \/ \E k \in 1..MaxRead, frame \in PeerFrames : HandleRead(k, frame)
    \/ \E frame \in PeerFrames : DispatchFrame(frame)
    \/ HandleClose
    \/ WaitReturns
    \/ WaitRaises
    \/ AppClose
    \/ AppChannel
    \/ \E n \in AppChannels : AppRpc(n)

SpecRpc == Init /\ [][NextRpc]_vars

\* The handshake and the channel allocator.
NextAlloc ==
    \/ \E k \in 1..MaxRead, frame \in PeerFrames : HandleRead(k, frame)
    \/ \E frame \in PeerFrames : DispatchFrame(frame)
    \/ WaitReturns
    \/ WaitRaises
    \/ AppAllocate
    \/ \E n \in 1..2 : AppResetChannel(n)

SpecAlloc == Init /\ [][NextAlloc]_vars

\* The handshake, then the application's submissions with content.
NextSend ==
    \/ \E k \in 1..MaxRead, frame \in PeerFrames : HandleRead(k, frame)
    \/ \E frame \in PeerFrames : DispatchFrame(frame)
    \/ WaitReturns
    \/ WaitRaises
    \/ \E content \in SendContents : AppSendMethod(1, content)

SpecSend == Init /\ [][NextSend]_vars

\* The handshake alone, for every choice of the local parameters.
NextTuning ==
    \/ \E k \in 1..MaxRead, frame \in PeerFrames : HandleRead(k, frame)
    \/ \E frame \in PeerFrames : DispatchFrame(frame)
    \/ WaitReturns
    \/ WaitRaises

SpecTuning == InitTuning /\ [][NextTuning]_vars

\* Synchronous calls on several channels, nested through the close that a
\* zero-byte read starts inside a blocked call; every recv returns one frame.
NextRoute ==
    \/ \E frame \in PeerFrames : HandleRead(1, frame)
    \/ HandleReadEmpty
    \/ WaitReturns
    \/ WaitRaises
    \/ AppChannel
    \/ AppResetChannel(1)
    \/ AppRpc(1)

SpecRoute == Init /\ [][NextRoute]_vars

\* The blocking construction: wait_for_open pumps events until the handshake
\* is over.  The program's own steps go on whenever they can; what the peer
\* and the transport deliver, and when, is not promised.
NextOpen ==
    \/ Driver
    \/ AppClose
    \/ AppWaitForOpen
    \/ WaitForOpenReturns

SpecOpen ==
    /\ Init
    /\ [][NextOpen]_vars
    /\ WF_vars(WaitForOpenReturns)
    /\ WF_vars(WaitReturns)
    /\ WF_vars(WaitRaises)
    /\ WF_vars(\E frame \in PeerFrames : DispatchFrame(frame))

\* The life cycle with the transport draining the outbound buffer.
NextWrite ==
    \/ Driver
    \/ AppClose
    \/ \E r \in 1..Len(outbound_buffer) : HandleWrite(r)

SpecWrite == Init /\ [][NextWrite]_vars

(***************************************************************************)
(* Properties.                                                             *)
(***************************************************************************)
SteadyState == frame_handler = "_generic_frame_handler"

Registered == Range(channels)

\* The frames an operation has appended to the outbound buffer.
Appended == SubSeq(Enqueued', Len(Enqueued) + 1, Len(Enqueued'))

\* The frames of a handshake in which the peer offered the limits t.
HandshakeFrames(t) ==
    <<_local_protocol_header,
      FrameMethod(0, StartOk("PLAIN", <<0, "guest", 0, "guest">>)),
      FrameMethod(0, TuneOk(combine_tuning(parameters.channel_max, t[1]),
                            combine_tuning(parameters.frame_max, t[2]),
                            combine_tuning(parameters.heartbeat, t[3]))),
      FrameMethod(0, Open("/", TRUE))>>

\* C1: the connection is marked open only by the return of the open call
\* with the peer's open-ok; at that point the credentials are cleared and the
\* frames enqueued begin with protocol-header, start-ok, tune-ok carrying the
\* negotiated limits and open(virtual_host), in this order, and are exactly
\* these four when the peer has sent only start, tune and open-ok.
C1_HandshakeOrder ==
    [][(~connection_open /\ connection_open') =>
          /\ stack # <<>>
          /\ Top.k = "wait"
          /\ Top.reply = OpenOk(<<>>)
          /\ credentials' = None
          /\ \E t \in TuneOffers :
                /\ state' = [channel_max |-> combine_tuning(parameters.channel_max, t[1]),
                             frame_max |-> combine_tuning(parameters.frame_max, t[2])]
                /\ Len(Enqueued') >= 4
                /\ SubSeq(Enqueued', 1, 4) = HandshakeFrames(t)
          /\ (inbound_count' = 3 => Len(Enqueued') = 4)]_vars

C1_Witness ==
    /\ connection_open
    /\ inbound_count = 3
    /\ credentials = None
    /\ Enqueued = HandshakeFrames(<<2, 10, 60>>)
    /\ state = [channel_max |-> 2, frame_max |-> 10]
    /\ wire # <<>>

\* C2: the open flag is never true while a close reason is recorded.
C2_OpenExcludesClosed ==
    ~(connection_open /\ connection_close # None)

\* C3: once a close reason is recorded, no later step changes it.
C3_CloseReasonSetOnce ==
    [][connection_close # None => connection_close' = connection_close]_vars

C3_Witness ==
    /\ connection_close = PeerClose
    /\ last \in {"handle_close", "handle_read_error"}

\* The peer's connection-level close goes to the frame handler.
PeerCloseDispatched ==
    \/ \E k \in 1..MaxRead : HandleRead(k, FrameMethod(0, PeerClose))
    \/ DispatchFrame(FrameMethod(0, PeerClose))

\* C4: a peer close dispatched in steady state with no close reason yet
\* records the peer's reason, gives it to every channel then registered,
\* leaves the connection not open, enqueues exactly one close-ok on channel 0
\* and calls the connection-closed hook.
C4_PeerClose ==
    [][(SteadyState /\ connection_close = None /\ PeerCloseDispatched) =>
          /\ connection_close' = PeerClose
          /\ \A h \in Registered : handlers'[h].channel_close = PeerClose
          /\ ~connection_open'
          /\ Appended = <<FrameMethod(0, CloseOk)>>
          /\ closed_hooks' = closed_hooks + 1
          /\ error' = None]_vars

C4_Witness ==
    /\ closed_hooks = 1
    /\ connection_close = PeerClose
    /\ ~connection_open
    /\ opened_hooks = 1
    /\ \E h \in 1..Len(handlers) :
          /\ handlers[h].channel_number # 0
          /\ handlers[h].channel_close = PeerClose

\* C5: close() on an open connection marks it not open, enqueues exactly one
\* close method (200, "Normal shutdown", 0, 0) on channel 0 and waits for
\* close-ok; when close-ok arrives the close reason becomes that record, every
\* registered channel has it, and transport shutdown is requested.  close() on
\* a connection that is not open enqueues nothing and only requests transport
\* shutdown.
C5_LocalClose ==
    [][/\ (connection_open /\ (AppClose \/ HandleReadEmpty)) =>
             /\ ~connection_open'
             /\ Appended = <<FrameMethod(0, NormalShutdown)>>
             /\ stack' # <<>>
             /\ stack'[Len(stack')].k = "wait"
             /\ stack'[Len(stack')].acceptable = {"Connection.CloseOk"}
             /\ error' = None
       /\ (WaitReturns /\ Top.cont = "close") =>
             /\ connection_close' = NormalShutdown
             /\ \A h \in Registered : handlers'[h].channel_close = NormalShutdown
             /\ shutdown_requests' = shutdown_requests + 1
       /\ (~connection_open /\ (AppClose \/ HandleReadEmpty)) =>
             /\ Appended = <<>>
             /\ shutdown_requests' = shutdown_requests + 1
             /\ UNCHANGED <<connection_open, connection_close, channels,
                            handlers, stack, frame_handler>>]_vars

\* C6: after handle_close, in whatever state the connection was, the reason
\* (0, "Socket closed") is recorded if none was, every registered channel has
\* a reason, the connection is not open and transport shutdown is requested.
C6_TransportFailure ==
    [][(HandleClose \/ HandleReadError) =>
          /\ connection_close' =
                (IF connection_close = None THEN SocketClosed ELSE connection_close)
          /\ connection_close = None =>
                \A h \in Registered : handlers'[h].channel_close = SocketClosed
          /\ ~connection_open'
          /\ shutdown_requests' = shutdown_requests + 1]_vars

\* C7: a zero-byte read records the reason (0, "Socket closed"), unless a
\* reason was recorded before, and gives it to every registered channel.
C7_PeerDisconnect ==
    [][HandleReadEmpty =>
          /\ connection_close' =
                (IF connection_close = None THEN SocketClosed ELSE connection_close)
          /\ connection_close = None =>
                \A h \in Registered : handlers'[h].channel_close = SocketClosed]_vars

\* C8: while the connection has a close reason, every channel in the channel
\* table has a close reason too.
C8_RegisteredChannelsClosed ==
    connection_close # None =>
        \A n \in DOMAIN channels : handlers[channels[n]].channel_close # None

\* C9: _rpc on any channel of a connection with a close reason fails with
\* ConnectionClosed carrying that reason, enqueues nothing and leaves no wait.
C9_RpcAfterClose ==
    [][\A n \in AppChannels :
          (connection_close # None /\ AppRpc(n)) =>
             /\ error' = Exception("ConnectionClosed", connection_close)
             /\ outbound_buffer' = outbound_buffer
             /\ stack' = <<>>]_vars

C9_Witness ==
    /\ last = "_rpc"
    /\ error = Exception("ConnectionClosed", connection_close)
    /\ channels # <<>>
    /\ connection_close = NormalShutdown

\* C10: once a close reason is recorded, the only frames appended to the
\* outbound buffer are those of the close handshake (close, close-ok).
C10_NoFramesAfterClose ==
    [][connection_close # None =>
          \A i \in 1..Len(Appended) :
             /\ Appended[i].type = "FrameMethod"
             /\ Appended[i].method.name \in {"Connection.Close", "Connection.CloseOk"}]_vars

\* limit = self.state.channel_max or 32767
Limit == IF state.channel_max # 0 THEN state.channel_max ELSE DEFAULT_CHANNEL_LIMIT

\* A call of connection.channel() that returned a channel.
Allocated == (AppChannel \/ AppAllocate) /\ error' = None

\* C11: every number channel allocation returns is non-zero, not greater than
\* the negotiated channel-max (32767 when unset) and not in the channel table
\* at the time of the call; the allocated number is then registered.
C11_AllocatedNumbers ==
    [][Allocated =>
          /\ next_channel' # 0
          /\ next_channel' <= Limit
          /\ next_channel' \notin DOMAIN channels
          /\ DOMAIN channels' = DOMAIN channels \cup {next_channel'}]_vars

\* Some channel number from 1 to the negotiated channel-max is not in the
\* table.
FreeNumber == \E n \in 1..Limit : n \notin DOMAIN channels

\* C12: channel allocation fails with NoFreeChannels exactly when every
\* number from 1 to the negotiated channel-max is in the table; otherwise it
\* returns a number that was not in the table; a failed allocation leaves the
\* channel table as it was.
C12_NoFreeChannels ==
    [][AppAllocate =>
          /\ (error' = Exception("NoFreeChannels", None)) <=> ~FreeNumber
          /\ FreeNumber => error' = None /\ next_channel' \notin DOMAIN channels
          /\ error' # None => channels' = channels /\ handlers' = handlers]_vars

\* C17: after a number n was allocated, registered and deallocated again, the
\* next allocation does not return n while another number in range is free.
C17_NoImmediateReuse ==
    [][(/\ Allocated
        /\ last = "reset_channel"
        /\ next_channel # 0
        /\ next_channel \notin DOMAIN channels
        /\ \E m \in 1..Limit : m # next_channel /\ m \notin DOMAIN channels)
          => next_channel' # next_channel]_vars

\* maxpiece = frame_max - HEADER_SIZE - FOOTER_SIZE
MaxPiece == state.frame_max - (HEADER_SIZE + FOOTER_SIZE)

\* The content-body frames among the frames a step appends.
BodiesAppended == SelectSeq(Appended, LAMBDA f : f.type = "FrameBody")

RECURSIVE Payload(_)
Payload(frames) ==
    IF frames = <<>> THEN <<>> ELSE Head(frames).fragment \o Payload(Tail(frames))

\* C13: a body of L bytes sent with frame_max F above the frame overhead is
\* enqueued as ceil(L / (F - overhead)) content-body frames, all but the last
\* of exactly F - overhead bytes, whose payloads concatenated are the body.
C13_BodyFragments ==
    [][\A content \in SendContents :
          (content # NoContent /\ AppSendMethod(1, content)) =>
              /\ MaxPiece > 0
              /\ Len(BodiesAppended) =
                     (Len(content.body) + MaxPiece - 1) \div MaxPiece
              /\ \A i \in 1..(Len(BodiesAppended) - 1) :
                     Len(BodiesAppended[i].fragment) = MaxPiece
              /\ \A i \in 1..Len(BodiesAppended) :
                     /\ Len(BodiesAppended[i].fragment) >= 1
                     /\ Len(BodiesAppended[i].fragment) <= MaxPiece
              /\ Payload(BodiesAppended) = content.body]_vars

C13_Witness ==
    /\ last = "send_method"
    /\ state.frame_max = 10
    /\ Len(outbound_buffer) >= 3
    /\ SubSeq(outbound_buffer, Len(outbound_buffer) - 2, Len(outbound_buffer)) =
          <<FrameBody(1, <<1, 2>>), FrameBody(1, <<3, 4>>), FrameBody(1, <<5>>)>>

\* Enqueued' is Enqueued with frames added at its end.
AppendsOnly ==
    /\ Len(Enqueued') >= Len(Enqueued)
    /\ SubSeq(Enqueued', 1, Len(Enqueued)) = Enqueued

\* C14: the frames of one send_method call are appended together at the end
\* of the outbound buffer: the method frame, then the content header with the
\* body's length if properties are given, then the content-body frames in
\* body order; no step ever puts a frame between frames already enqueued.
C14_SubmissionOrder ==
    [][/\ AppendsOnly
       /\ \A content \in SendContents : AppSendMethod(1, content) =>
             LET props == IF content = NoContent THEN None ELSE content.props
                 body == IF content = NoContent THEN <<>> ELSE content.body
                 header == IF props # None
                           THEN <<FrameHeader(1, Len(body), props)>>
                           ELSE <<>>
             IN  /\ outbound_buffer' = outbound_buffer \o Appended
                 /\ Len(Appended) = 1 + Len(header) + Len(BodiesAppended)
                 /\ Appended[1] = FrameMethod(1, BasicPublish)
                 /\ SubSeq(Appended, 2, 1 + Len(header)) = header
                 /\ BodiesAppended =
                       SubSeq(Appended, 2 + Len(header), Len(Appended))
                 /\ \A i \in 1..Len(BodiesAppended) :
                       BodiesAppended[i].channel_number = 1
                 /\ Payload(BodiesAppended) = body]_vars

C14_Witness ==
    \E i \in 1..Len(Enqueued) :
        /\ i + 4 <= Len(Enqueued)
        /\ SubSeq(Enqueued, i, i + 4) =
              <<FrameMethod(1, BasicPublish),
                FrameHeader(1, 3, BasicProperties),
                FrameBody(1, <<1, 2>>), FrameBody(1, <<3>>), FrameHeartbeat>>

\* The arrival numbers of the frames that a handle_read still on the stack
\* has received and not yet handed to the frame handler.
Undispatched ==
    UNION {Range(stack[i].buf) : i \in {j \in 1..Len(stack) : stack[j].k = "read"}}

\* C15: frames reach the frame handler in the order of their arrival: a step
\* that hands over a frame hands over one that arrived before every frame
\* still undispatched, also when handle_read runs inside the drain_events of
\* a blocked synchronous call.
C15_ArrivalOrder ==
    [][/\ inbound_count' > inbound_count =>
             \A a \in Undispatched : inbound_count + 1 < a
       /\ (\E frame \in PeerFrames : DispatchFrame(frame)) =>
             \A a \in Undispatched : Head(Top.buf) <= a]_vars

\* The limits the tuning negotiation can be given: the local parameters and
\* the peer's offers.
TuningInputs ==
    UNION {{p.channel_max, p.frame_max, p.heartbeat} : p \in TuningParameterChoices}
    \cup UNION {{t[1], t[2], t[3]} : t \in TuneOffers}

\* C16: combine_tuning is commutative, returns the other argument when one
\* is 0 and the smaller one when neither is; the limits in force after the
\* tune step are the combination of the local parameters with an offer.
C16_TuningAlgebra ==
    /\ \A a \in TuningInputs, b \in TuningInputs :
          /\ combine_tuning(a, b) = combine_tuning(b, a)
          /\ combine_tuning(0, b) = b
          /\ combine_tuning(a, 0) = a
          /\ (a # 0 /\ b # 0) =>
                /\ combine_tuning(a, b) \in {a, b}
                /\ combine_tuning(a, b) <= a
                /\ combine_tuning(a, b) <= b
    /\ SteadyState =>
          \E t \in TuneOffers :
              /\ state.channel_max =
                    (IF parameters.channel_max = 0 THEN t[1]
                     ELSE IF t[1] = 0 THEN parameters.channel_max
                     ELSE IF t[1] <= parameters.channel_max THEN t[1]
                     ELSE parameters.channel_max)
              /\ state.frame_max =
                    (IF parameters.frame_max = 0 THEN t[2]
                     ELSE IF t[2] = 0 THEN parameters.frame_max
                     ELSE IF t[2] <= parameters.frame_max THEN t[2]
                     ELSE parameters.frame_max)

C16_Witness ==
    /\ SteadyState
    /\ parameters = ConnectionParameters(3, 9, 30)
    /\ state = [channel_max |-> 2, frame_max |-> 9]
    /\ \E i \in 1..Len(outbound_buffer) :
          outbound_buffer[i] = FrameMethod(0, TuneOk(2, 9, 30))

\* The frame handler is handed this frame, by handle_read or by its loop.
Dispatched(frame) ==
    IF inbound_count' > inbound_count
    THEN HandleRead(inbound_count' - inbound_count, frame)
    ELSE DispatchFrame(frame)

\* C18: in steady state the dispatch of a frame other than a heartbeat whose
\* channel number is not in the channel table fails with an error and leaves
\* the channel table, the handlers, their pending calls and the outbound
\* buffer as they were; a frame for a registered channel N resolves pending
\* calls of channel N's handler only.
C18_FrameRouting ==
    [][\A frame \in PeerFrames :
          (/\ SteadyState
           /\ last' = "frame_handler"
           /\ frame.type # "FrameHeartbeat"
           /\ Dispatched(frame)) =>
              IF frame.channel_number \notin DOMAIN channels
              THEN /\ error' = Exception("KeyError", None)
                   /\ channels' = channels
                   /\ handlers' = handlers
                   /\ outbound_buffer' = outbound_buffer
                   /\ \A i \in 1..Len(stack') : stack'[i] = stack[i]
              ELSE \A i \in 1..Len(stack) :
                      (/\ i <= Len(stack')
                       /\ stack[i].k = "wait"
                       /\ stack'[i] # stack[i]) =>
                          stack[i].handler = channels[frame.channel_number]]_vars

C18_Witness ==
    /\ last = "frame_handler"
    /\ error = Exception("KeyError", None)
    /\ SteadyState
    /\ connection_open
    /\ connection_close = None
    /\ Len(handlers) = 2
    /\ DOMAIN channels = {0}

\* The step raised an exception of this type.
Fails(type) == error' # None /\ error'.type = type

\* C19: while the connection awaits start, a protocol header from the peer
\* fails with ProtocolVersionMismatch and a start whose mechanisms the
\* credentials cannot answer fails with LoginError; in both cases nothing is
\* enqueued, the frame handler stays _login1 and the connection is not open.
C19_LoginFailures ==
    [][\A frame \in PeerFrames :
          (/\ frame_handler = "_login1"
           /\ last' = "frame_handler"
           /\ Dispatched(frame)) =>
              /\ frame.type = "FrameProtocolHeader" =>
                    /\ Fails("ProtocolVersionMismatch")
                    /\ outbound_buffer' = outbound_buffer
                    /\ frame_handler' = "_login1"
                    /\ ~connection_open'
              /\ (/\ frame.type = "FrameMethod"
                  /\ frame.method.name = "Connection.Start"
                  /\ response_for(credentials, frame.method) = None) =>
                    /\ Fails("LoginError")
                    /\ outbound_buffer' = outbound_buffer
                    /\ frame_handler' = "_login1"
                    /\ ~connection_open']_vars

\* wait_for_open has been called and has not returned.
OpenWaiting == \E i \in 1..Len(stack) : stack[i].k = "wait_for_open"

\* C20: once the handshake has completed, or the connection has been shut
\* down before becoming open (a close reason recorded or transport shutdown
\* requested), a wait_for_open in progress eventually returns.
C20_WaitForOpenReturns ==
    (OpenWaiting /\ (connection_open \/ connection_close # None
                                      \/ shutdown_requests > 0))
        ~> ~OpenWaiting

====
